---- MODULE Spec2Model ----
(***************************************************************************)
(* Transaction construction pipeline of ngcccbase (txcons.py):             *)
(* BasicTxSpec -> SimpleOperationalTxSpec -> ComposedTxSpec -> SignedTxSpec *)
(* together with the greedy coin selection that funds a native transfer.   *)
(*                                                                         *)
(* A Python call is modelled by an operator that returns a record          *)
(*   [ok, val, err, calls]                                                 *)
(* ok = TRUE: the call returned val; ok = FALSE: it raised, err being the  *)
(* exception.  calls is the ordered log of the collaborator invocations    *)
(* the call made.                                                          *)
(***************************************************************************)
EXTENDS Integers, Sequences, FiniteSets, TLC

VARIABLES
    utxos,      \* the wallet's spendable outputs, in the order the coin query returns them
    spec,       \* the transaction spec value the caller currently holds
    ret,        \* outcome of the last call made on spec
    inflight    \* the constructions under way side by side on the same wallet

vars == <<utxos, spec, ret, inflight>>

----------------------------------------------------------------------------
(* Bounds of the model *)

MaxUtxos == 2
MaxTargets == 2
MaxConstructions == 2

----------------------------------------------------------------------------
(* Exceptions.  The code raises bare Exception objects that differ only by *)
(* their message; each is named here after the failure it stands for.      *)

EmptySpec == "basic txs is empty"
WrongColorId == "wrong color id"
WrongColorIdRequested == "wrong color id requested"
InvalidSelection == "cannot select 0 coins"
InsufficientFunds == "not enough coins to reach the target"
UnsupportedSpec == "do not know how to transform tx spec"
UnrecognizedSpec == "spec kind is not recognized"
NameError == "NameError"
KeyResolutionError == "KeyResolutionError"
KernelError == "compose_tx_spec failed"

None == [cls |-> "NoneType"]

Return(val, calls) == [ok |-> TRUE, val |-> val, err |-> "", calls |-> calls]
Raise(err, calls) == [ok |-> FALSE, val |-> None, err |-> err, calls |-> calls]
Call(fn, args) == [fn |-> fn, args |-> args]
\* the outcome r of a callee, seen by a caller that had already made the calls before
After(before, r) == [r EXCEPT !.calls = before \o @]

----------------------------------------------------------------------------
(* The wallet: assets, colors, addresses, spendable outputs *)

Assets == {"bitcoin", "gold"}
ColorIds == {0, 1, 2}
Addrs == {"addrA", "addrB"}

\* asset.get_color_set().color_id_set
get_color_set(asset) == IF asset = "bitcoin" THEN {0} ELSE {1}

\* asset.get_color_set().has_color_id(color_id)
has_color_id(asset, color_id) == color_id \in get_color_set(asset)

\* the outputs a wallet may hold: value, color, and whether the owning
\* address record carries a private key (a watch-only address does not)
UtxoKinds ==
    {[value |-> v, color_id |-> 0, privkey |-> TRUE] : v \in {10000, 20000, 45000, 60000}}
    \cup {[value |-> 20000, color_id |-> 0, privkey |-> FALSE]}
    \cup {[value |-> 20000, color_id |-> 1, privkey |-> TRUE]}

SeqsUpTo(S, n) == UNION {[1..k -> S] : k \in 0..n}

\* a pool of outputs, each identified by its position (its outpoint)
Pool(kinds) ==
    [i \in 1..Len(kinds) |->
        [outpoint |-> i, value |-> kinds[i].value,
         color_id |-> kinds[i].color_id, privkey |-> kinds[i].privkey]]

\* self.model.make_coin_query({"color_id_set": color_id_set}).get_result()
make_coin_query(color_id_set) ==
    SelectSeq(utxos, LAMBDA utxo : utxo.color_id \in color_id_set)

RECURSIVE SumValues(_)
SumValues(s) == IF s = <<>> THEN 0 ELSE s[1].value + SumValues(Tail(s))

----------------------------------------------------------------------------
(* BasicTxSpec *)

BasicTxSpec(targets) == [cls |-> "BasicTxSpec", targets |-> targets]

\* BasicTxSpec.add_target: targets.append((target_addr, asset, value))
Basic_add_target(tx_spec, target_addr, asset, value) ==
    [tx_spec EXCEPT !.targets = Append(@, <<target_addr, asset, value>>)]

\* is_monoasset returning True at the first target, whatever the others name
is_monoasset_first(tx_spec) ==
    IF tx_spec.targets = <<>>
    THEN Raise(EmptySpec, <<>>)
    ELSE Return(TRUE, <<>>)

\* is_monoasset answering False, instead of raising, on an intent without targets
is_monoasset_quiet(tx_spec) ==
    IF tx_spec.targets = <<>>
    THEN Return(FALSE, <<>>)
    ELSE LET asset == tx_spec.targets[1][2]
         IN  Return(\A i \in 1..Len(tx_spec.targets) : tx_spec.targets[i][2] = asset, <<>>)

is_monoasset(tx_spec) ==
    IF tx_spec.targets = <<>>
    THEN Raise(EmptySpec, <<>>)
    ELSE LET asset == tx_spec.targets[1][2]
         IN  Return(\A i \in 1..Len(tx_spec.targets) : tx_spec.targets[i][2] = asset, <<>>)

----------------------------------------------------------------------------
(* SimpleOperationalTxSpec *)

SimpleOperationalTxSpec(asset, targets) ==
    [cls |-> "SimpleOperationalTxSpec", asset |-> asset, targets |-> targets]

\* SimpleOperationalTxSpec.add_target: targets.append((target_addr, color_id, colorvalue))
Operational_add_target(tx_spec, target_addr, color_id, colorvalue) ==
    [tx_spec EXCEPT !.targets = Append(@, <<target_addr, color_id, colorvalue>>)]

get_targets(tx_spec) == tx_spec.targets

\* OperationalTxSpec.is_monocolor: every target carries the same color id
Operational_is_monocolor(tx_spec) ==
    \A i \in 1..Len(tx_spec.targets) : tx_spec.targets[i][2] = tx_spec.targets[1][2]

\* wam.get_change_address(color_set).get_address()
get_change_address(color_set) == IF color_set = {0} THEN "change0" ELSE "change1"

get_change_addr(tx_spec, color_id) ==
    IF color_id = 0
    THEN Return(get_change_address({0}), <<Call("get_change_address", <<{0}>>)>>)
    ELSE IF has_color_id(tx_spec.asset, color_id)
    THEN Return(get_change_address(get_color_set(tx_spec.asset)),
                <<Call("get_change_address", <<get_color_set(tx_spec.asset)>>)>>)
    ELSE Raise(WrongColorId, <<>>)

\* the constructions that may be under way at once, each idle, holding a
\* fundable spec, or holding the coins it selected
Constructions == 1..MaxConstructions
Idle == [pc |-> "idle"]
NoConstructions == [p \in Constructions |-> Idle]

\* select_loop with the test ssum > value: a selection that reaches the
\* target exactly goes on to the next coin
RECURSIVE select_loop_strict(_, _, _, _, _)
select_loop_strict(utxo_list, i, ssum, selection, value) ==
    IF i > Len(utxo_list)
    THEN Raise(InsufficientFunds, <<>>)
    ELSE LET utxo == utxo_list[i]
             ssum2 == ssum + utxo.value
             selection2 == Append(selection, utxo)
         IN  IF ssum2 > value
             THEN Return(<<selection2, ssum2>>, <<>>)
             ELSE select_loop_strict(utxo_list, i + 1, ssum2, selection2, value)

\* the for loop of select_coins, entered at utxo_list[i]
RECURSIVE select_loop(_, _, _, _, _)
select_loop(utxo_list, i, ssum, selection, value) ==
    IF i > Len(utxo_list)
    THEN Raise(InsufficientFunds, <<>>)
    ELSE LET utxo == utxo_list[i]
             ssum2 == ssum + utxo.value
             selection2 == Append(selection, utxo)
         IN  IF ssum2 >= value
             THEN Return(<<selection2, ssum2>>, <<>>)
             ELSE select_loop(utxo_list, i + 1, ssum2, selection2, value)

\* utxo is among the coins a construction under way has selected
Held(utxo) ==
    \E p \in Constructions :
        /\ inflight[p].pc = "selected"
        /\ \E i \in 1..Len(inflight[p].sel.val[1]) :
              inflight[p].sel.val[1][i].outpoint = utxo.outpoint

\* select_coins passing over the coins that another construction holds
select_coins_reserving(tx_spec, color_id, value) ==
    IF ~(color_id = 0 \/ has_color_id(tx_spec.asset, color_id))
    THEN Raise(WrongColorIdRequested, <<>>)
    ELSE LET color_id_set == {color_id}
             utxo_list == SelectSeq(make_coin_query(color_id_set), LAMBDA utxo : ~Held(utxo))
             query == <<Call("make_coin_query", <<color_id_set>>)>>
         IN  IF value = 0
             THEN Raise(InvalidSelection, query)
             ELSE After(query, select_loop(utxo_list, 1, 0, <<>>, value))

select_coins(tx_spec, color_id, value) ==
    IF ~(color_id = 0 \/ has_color_id(tx_spec.asset, color_id))
    THEN Raise(WrongColorIdRequested, <<>>)
    ELSE LET color_id_set == {color_id}
             utxo_list == make_coin_query(color_id_set)
             query == <<Call("make_coin_query", <<color_id_set>>)>>
         IN  IF value = 0
             THEN Raise(InvalidSelection, query)
             ELSE After(query, select_loop(utxo_list, 1, 0, <<>>, value))

get_required_fee(tx_size) == 10000

----------------------------------------------------------------------------
(* ComposedTxSpec *)

TxIn(utxo) == [utxo |-> utxo]
TxOut(value, target_addr) == [value |-> value, target_addr |-> target_addr]
ComposedTxSpec(txins, txouts) == [cls |-> "ComposedTxSpec", txins |-> txins, txouts |-> txouts]

\* the answers the color kernel of a non-native color may give to compose_tx_spec
KernelAnswers == {"all", "none", "fail"}

\* color_def.compose_tx_spec(tx_spec): the kernel's own funding plan
compose_tx_spec(tx_spec, color_id, answer) ==
    LET targets == get_targets(tx_spec)
        txouts == [i \in 1..Len(targets) |-> TxOut(targets[i][3], targets[i][1])]
        coins == make_coin_query({color_id})
    IN  IF answer = "fail" THEN Raise(KernelError, <<>>)
        ELSE IF answer = "none" THEN Return(ComposedTxSpec(<<>>, txouts), <<>>)
        ELSE Return(ComposedTxSpec([i \in 1..Len(coins) |-> TxIn(coins[i])], txouts), <<>>)

----------------------------------------------------------------------------
(* SignedTxSpec *)

testnet == FALSE

\* line 162: [utxo.get_pycoin_coin_source() for utxos in input_utxos] evaluates
\* the unbound name utxo once per element of input_utxos
coin_sources(input_utxos) ==
    IF input_utxos = <<>>
    THEN Return(<<>>, <<>>)
    ELSE Raise(NameError, <<>>)

\* wif_to_tuple_of_secret_exponent_compressed(utxo.address_rec.address.privkey)[0]
\* for each input in order; an address without private key cannot be decoded
RECURSIVE secret_exponents(_, _, _)
secret_exponents(input_utxos, i, acc) ==
    IF i > Len(input_utxos)
    THEN Return(acc, <<>>)
    ELSE After(<<Call("privkey", <<input_utxos[i].outpoint>>)>>,
               IF input_utxos[i].privkey
               THEN secret_exponents(input_utxos, i + 1, Append(acc, 100 + input_utxos[i].outpoint))
               ELSE Raise(KeyResolutionError, <<>>))

AddrByte(addr) ==
    CASE addr = "addrA" -> 65
      [] addr = "addrB" -> 66
      [] addr = "change0" -> 192
      [] OTHER -> 193

RECURSIVE Flatten(_)
Flatten(ss) == IF ss = <<>> THEN <<>> ELSE ss[1] \o Flatten(Tail(ss))

\* UnsignedTx.standard_tx(inputs, outputs).sign(solver).stream(s): the wire bytes
\* of the transaction, every input carrying the signature made with its key
stream(inputs, outputs, exponents, is_test) ==
    <<IF is_test THEN 2 ELSE 1, Len(inputs)>>
    \o Flatten([i \in 1..Len(inputs) |-> <<inputs[i], exponents[i]>>])
    \o <<Len(outputs)>>
    \o Flatten([i \in 1..Len(outputs) |->
                   <<(outputs[i][1] \div 1000) % 256, AddrByte(outputs[i][2])>>])

construct_tx(composed_tx_spec, is_test) ==
    LET input_utxos == [i \in 1..Len(composed_tx_spec.txins) |-> composed_tx_spec.txins[i].utxo]
        inputs == coin_sources(input_utxos)
        outputs == [i \in 1..Len(composed_tx_spec.txouts) |->
                       <<composed_tx_spec.txouts[i].value, composed_tx_spec.txouts[i].target_addr>>]
        exponents == secret_exponents(input_utxos, 1, <<>>)
    IN  IF ~inputs.ok THEN inputs
        ELSE IF ~exponents.ok THEN exponents
        ELSE Return(stream(inputs.val, outputs, exponents.val, is_test), exponents.calls)

\* SignedTxSpec.__init__: the object exists only if construct_tx returns
SignedTxSpec(composed_tx_spec, is_test) ==
    LET tx == construct_tx(composed_tx_spec, is_test)
    IN  IF ~tx.ok THEN tx
        ELSE Return([cls |-> "SignedTxSpec", composed_tx_spec |-> composed_tx_spec,
                     testnet |-> is_test, tx_data |-> tx.val], tx.calls)

get_tx_data(tx_spec) == tx_spec.tx_data

HexDigits == <<"0", "1", "2", "3", "4", "5", "6", "7", "8", "9", "a", "b", "c", "d", "e", "f">>

\* binascii.hexlify: two lowercase hexadecimal digits per byte, high nibble first
hexlify(data) ==
    Flatten([i \in 1..Len(data) |->
                <<HexDigits[(data[i] \div 16) + 1], HexDigits[(data[i] % 16) + 1]>>])

get_hex_tx_data(tx_spec) == hexlify(tx_spec.tx_data)

----------------------------------------------------------------------------
(* AssetDefinition.make_operational_tx_spec: the fundable form of a         *)
(* mono-asset intent, every target carrying the asset's color id            *)

make_operational_tx_spec(asset, tx_spec) ==
    LET color_id == CHOOSE c \in get_color_set(asset) : TRUE
    IN  SimpleOperationalTxSpec(asset,
            [i \in 1..Len(tx_spec.targets) |->
                <<tx_spec.targets[i][1], color_id, tx_spec.targets[i][3]>>])

----------------------------------------------------------------------------
(* TransactionSpecTransformer *)

NoneKind == "<None>"
SpecKinds == {"basic", "operational", "composed", "signed"}

classify_tx_spec(tx_spec) ==
    IF tx_spec.cls = "BasicTxSpec" THEN "basic"
    ELSE IF tx_spec.cls = "SimpleOperationalTxSpec" THEN "operational"
    ELSE IF tx_spec.cls = "ComposedTxSpec" THEN "composed"
    ELSE IF tx_spec.cls = "SignedTxSpec" THEN "signed"
    ELSE NoneKind

RECURSIVE SumTargets(_)
SumTargets(targets) == IF targets = <<>> THEN 0 ELSE targets[1][3] + SumTargets(Tail(targets))

\* append_change with the test change >= 0 and the change output appended
\* to txouts: a change output of value 0 follows an exact selection
append_change_nonneg(txouts, change, tx_spec) ==
    IF change >= 0
    THEN Return(Append(txouts, TxOut(change, get_change_address({0}))),
                <<Call("get_change_address", <<{0}>>)>>)
    ELSE Return(txouts, <<>>)

\* lines 255-258: outputs.append(TxOut(change, tx_spec.get_change_address(0))).
\* outputs is bound nowhere, and the name is looked up before the argument
\* of append is evaluated.
append_change(txouts, change, tx_spec) ==
    IF change > 0
    THEN Raise(NameError, <<>>)
    ELSE Return(txouts, <<>>)

\* compose_uncolored asking the selector for the total of the targets alone,
\* the fee left out
compose_uncolored_feeless(tx_spec) ==
    LET targets == get_targets(tx_spec)
        ttotal == SumTargets(targets)
        fee == get_required_fee(500)
        sel == select_coins(tx_spec, 0, ttotal)
        before == <<Call("get_required_fee", <<500>>), Call("select_coins", <<0, ttotal>>)>>
    IN  IF ~sel.ok THEN After(before, sel)
        ELSE LET sel_utxos == sel.val[1]
                 sum_sel_coins == sel.val[2]
                 txins == [i \in 1..Len(sel_utxos) |-> TxIn(sel_utxos[i])]
                 change == sum_sel_coins - ttotal - fee
                 txouts == [i \in 1..Len(targets) |-> TxOut(targets[i][3], targets[i][1])]
                 outs == append_change(txouts, change, tx_spec)
                 calls == before \o sel.calls \o outs.calls
             IN  IF ~outs.ok THEN Raise(outs.err, calls)
                 ELSE Return(ComposedTxSpec(txins, outs.val),
                             Append(calls, Call("ComposedTxSpec", <<>>)))

\* lines 243-259: compose a simple bitcoin transaction
compose_uncolored(tx_spec) ==
    LET targets == get_targets(tx_spec)
        ttotal == SumTargets(targets)
        fee == get_required_fee(500)
        sel == select_coins(tx_spec, 0, ttotal + fee)
        before == <<Call("get_required_fee", <<500>>), Call("select_coins", <<0, ttotal + fee>>)>>
    IN  IF ~sel.ok THEN After(before, sel)
        ELSE LET sel_utxos == sel.val[1]
                 sum_sel_coins == sel.val[2]
                 txins == [i \in 1..Len(sel_utxos) |-> TxIn(sel_utxos[i])]
                 change == sum_sel_coins - ttotal - fee
                 txouts == [i \in 1..Len(targets) |-> TxOut(targets[i][3], targets[i][1])]
                 outs == append_change(txouts, change, tx_spec)
                 calls == before \o sel.calls \o outs.calls
             IN  IF ~outs.ok THEN Raise(outs.err, calls)
                 ELSE Return(ComposedTxSpec(txins, outs.val),
                             Append(calls, Call("ComposedTxSpec", <<>>)))

RECURSIVE transform(_, _, _)
RECURSIVE transform_basic(_, _, _)
RECURSIVE transform_operational(_, _, _)

\* transform_basic asking for the signed form whatever kind was requested
transform_basic_through(tx_spec, target_spec_kind, kernel) ==
    IF target_spec_kind \in {"operational", "composed", "signed"}
    THEN LET mono == is_monoasset(tx_spec)
             checked == <<Call("is_monoasset", <<>>)>>
         IN  IF ~mono.ok THEN After(checked, mono)
             ELSE IF mono.val
             THEN LET asset == tx_spec.targets[1][2]
                      operational_ts == make_operational_tx_spec(asset, tx_spec)
                  IN  After(checked \o <<Call("make_operational_tx_spec", <<asset>>)>>,
                            transform(operational_ts, "signed", kernel))
             ELSE Raise(UnsupportedSpec, checked)
    ELSE Raise(UnsupportedSpec, <<>>)

transform_basic(tx_spec, target_spec_kind, kernel) ==
    IF target_spec_kind \in {"operational", "composed", "signed"}
    THEN LET mono == is_monoasset(tx_spec)
             checked == <<Call("is_monoasset", <<>>)>>
         IN  IF ~mono.ok THEN After(checked, mono)
             ELSE IF mono.val
             THEN LET asset == tx_spec.targets[1][2]
                      operational_ts == make_operational_tx_spec(asset, tx_spec)
                  IN  After(checked \o <<Call("make_operational_tx_spec", <<asset>>)>>,
                            transform(operational_ts, target_spec_kind, kernel))
             ELSE Raise(UnsupportedSpec, checked)
    ELSE Raise(UnsupportedSpec, <<>>)

\* transform_operational composing a second time when the first attempt raised
transform_operational_retry(tx_spec, target_spec_kind, kernel) ==
    IF target_spec_kind \in {"composed", "signed"}
    THEN LET checked == <<Call("is_monocolor", <<>>)>>
         IN  IF Operational_is_monocolor(tx_spec)
             THEN LET color_id == get_targets(tx_spec)[1][2]
                      composed == IF color_id = 0
                                  THEN compose_uncolored(tx_spec)
                                  ELSE After(<<Call("compose_tx_spec", <<color_id>>)>>,
                                             compose_tx_spec(tx_spec, color_id, kernel))
                  IN  IF ~composed.ok THEN After(checked \o composed.calls, composed)
                      ELSE After(checked \o composed.calls,
                                 transform(composed.val, target_spec_kind, kernel))
             ELSE Raise(UnsupportedSpec, checked)
    ELSE Raise(UnsupportedSpec, <<>>)

\* transform_operational without the test color_id == 0: every color is
\* composed as if it were the native currency
transform_operational_uncolored(tx_spec, target_spec_kind, kernel) ==
    IF target_spec_kind \in {"composed", "signed"}
    THEN LET checked == <<Call("is_monocolor", <<>>)>>
         IN  IF Operational_is_monocolor(tx_spec)
             THEN LET composed == compose_uncolored(tx_spec)
                  IN  IF ~composed.ok THEN After(checked, composed)
                      ELSE After(checked \o composed.calls,
                                 transform(composed.val, target_spec_kind, kernel))
             ELSE Raise(UnsupportedSpec, checked)
    ELSE Raise(UnsupportedSpec, <<>>)

transform_operational(tx_spec, target_spec_kind, kernel) ==
    IF target_spec_kind \in {"composed", "signed"}
    THEN LET checked == <<Call("is_monocolor", <<>>)>>
         IN  IF Operational_is_monocolor(tx_spec)
             THEN LET color_id == get_targets(tx_spec)[1][2]
                      composed == IF color_id = 0
                                  THEN compose_uncolored(tx_spec)
                                  ELSE After(<<Call("compose_tx_spec", <<color_id>>)>>,
                                             compose_tx_spec(tx_spec, color_id, kernel))
                  IN  IF ~composed.ok THEN After(checked, composed)
                      ELSE After(checked \o composed.calls,
                                 transform(composed.val, target_spec_kind, kernel))
             ELSE Raise(UnsupportedSpec, checked)
    ELSE Raise(UnsupportedSpec, <<>>)

\* transform_composed without the test of target_spec_kind
transform_composed_any(tx_spec, target_spec_kind) ==
    After(<<Call("SignedTxSpec", <<>>)>>, SignedTxSpec(tx_spec, testnet))

transform_composed(tx_spec, target_spec_kind) ==
    IF target_spec_kind \in {"signed"}
    THEN After(<<Call("SignedTxSpec", <<>>)>>, SignedTxSpec(tx_spec, testnet))
    ELSE Raise(UnsupportedSpec, <<>>)

transform_signed(tx_spec, target_spec_kind) == Raise(UnsupportedSpec, <<>>)

\* transform without the test spec_kind is None: a value of no known class
\* ends in the last branch of the dispatch
transform_unclassified(tx_spec, target_spec_kind, kernel) ==
    LET spec_kind == classify_tx_spec(tx_spec)
    IN  IF spec_kind = target_spec_kind THEN Return(tx_spec, <<>>)
        ELSE IF spec_kind = "basic" THEN transform_basic(tx_spec, target_spec_kind, kernel)
        ELSE IF spec_kind = "operational" THEN transform_operational(tx_spec, target_spec_kind, kernel)
        ELSE IF spec_kind = "composed" THEN transform_composed(tx_spec, target_spec_kind)
        ELSE transform_signed(tx_spec, target_spec_kind)

\* transform without the test spec_kind == target_spec_kind
transform_always_dispatch(tx_spec, target_spec_kind, kernel) ==
    LET spec_kind == classify_tx_spec(tx_spec)
    IN  IF spec_kind = NoneKind THEN Raise(UnrecognizedSpec, <<>>)
        ELSE IF spec_kind = "basic" THEN transform_basic(tx_spec, target_spec_kind, kernel)
        ELSE IF spec_kind = "operational" THEN transform_operational(tx_spec, target_spec_kind, kernel)
        ELSE IF spec_kind = "composed" THEN transform_composed(tx_spec, target_spec_kind)
        ELSE transform_signed(tx_spec, target_spec_kind)

transform(tx_spec, target_spec_kind, kernel) ==
    LET spec_kind == classify_tx_spec(tx_spec)
    IN  IF spec_kind = NoneKind THEN Raise(UnrecognizedSpec, <<>>)
        ELSE IF spec_kind = target_spec_kind THEN Return(tx_spec, <<>>)
        ELSE IF spec_kind = "basic" THEN transform_basic(tx_spec, target_spec_kind, kernel)
        ELSE IF spec_kind = "operational" THEN transform_operational(tx_spec, target_spec_kind, kernel)
        ELSE IF spec_kind = "composed" THEN transform_composed(tx_spec, target_spec_kind)
        ELSE transform_signed(tx_spec, target_spec_kind)

----------------------------------------------------------------------------
(* State machine: a caller that builds specs and calls the transformer *)

NoRet == [op |-> "none"]

\* a value that is none of the four spec classes
Unrecognized == [cls |-> "object"]

TargetKinds ==
    {<<"addrA", "bitcoin", 50000>>, <<"addrB", "bitcoin", 10000>>,
     <<"addrA", "bitcoin", 0>>, <<"addrB", "gold", 10000>>}

OperationalTargetKinds ==
    {<<"addrA", 0, 50000>>, <<"addrB", 0, 10000>>, <<"addrB", 1, 10000>>}

RequestKinds == SpecKinds \cup {"broadcast"}

SelectValues == {-1, 0, 20000, 60000}

Init ==
    /\ utxos \in {Pool(kinds) : kinds \in SeqsUpTo(UtxoKinds, MaxUtxos)}
    /\ spec \in {BasicTxSpec(<<>>), Unrecognized}
    /\ ret = NoRet
    /\ inflight = NoConstructions

\* tx_spec.add_target(target_addr, asset, value) on the intent
BasicAddTarget ==
    /\ spec.cls = "BasicTxSpec"
    /\ Len(spec.targets) < MaxTargets
    /\ \E t \in TargetKinds : spec' = Basic_add_target(spec, t[1], t[2], t[3])
    /\ ret' = NoRet
    /\ UNCHANGED <<utxos, inflight>>

\* op_tx_spec.add_target(target_addr, color_id, colorvalue) on the fundable spec
OperationalAddTarget ==
    /\ spec.cls = "SimpleOperationalTxSpec"
    /\ Len(spec.targets) < MaxTargets
    /\ \E t \in OperationalTargetKinds : spec' = Operational_add_target(spec, t[1], t[2], t[3])
    /\ ret' = NoRet
    /\ UNCHANGED <<utxos, inflight>>

\* transformer.transform(spec, target_spec_kind)
Transform ==
    /\ \E target_spec_kind \in RequestKinds, kernel \in KernelAnswers :
          ret' = [op |-> "transform", kind |-> target_spec_kind,
                  out |-> transform(spec, target_spec_kind, kernel)]
    /\ UNCHANGED <<utxos, spec, inflight>>

\* the caller goes on with the spec transform returned
Continue ==
    /\ ret.op = "transform"
    /\ ret.out.ok
    /\ ret.out.val # spec
    /\ spec' = ret.out.val
    /\ ret' = NoRet
    /\ UNCHANGED <<utxos, inflight>>

\* op_tx_spec.select_coins(color_id, value)
SelectCoins ==
    /\ spec.cls = "SimpleOperationalTxSpec"
    /\ \E color_id \in ColorIds, value \in SelectValues :
          ret' = [op |-> "select_coins", color_id |-> color_id, value |-> value,
                  out |-> select_coins(spec, color_id, value)]
    /\ UNCHANGED <<utxos, spec, inflight>>

\* op_tx_spec.get_change_addr(color_id)
GetChangeAddr ==
    /\ spec.cls = "SimpleOperationalTxSpec"
    /\ \E color_id \in ColorIds :
          ret' = [op |-> "get_change_addr", color_id |-> color_id,
                  out |-> get_change_addr(spec, color_id)]
    /\ UNCHANGED <<utxos, spec, inflight>>

\* signed_tx_spec.get_tx_data() and .get_hex_tx_data()
GetTxData ==
    /\ spec.cls = "SignedTxSpec"
    /\ ret' = [op |-> "get_tx_data", data |-> get_tx_data(spec), hex |-> get_hex_tx_data(spec)]
    /\ UNCHANGED <<utxos, spec, inflight>>

Next ==
    \/ BasicAddTarget
    \/ OperationalAddTarget
    \/ Transform
    \/ Continue
    \/ SelectCoins
    \/ GetChangeAddr
    \/ GetTxData

Spec == Init /\ [][Next]_vars

----------------------------------------------------------------------------
(* Several constructions side by side on one wallet: each takes a fundable *)
(* spec and selects its coins (lines 244-248); what it selected stays with *)
(* it until the caller drops the construction.                             *)

SharedTargetKinds == {<<"addrA", 0, 50000>>, <<"addrB", 0, 10000>>}

InitShared ==
    /\ utxos \in {Pool(kinds) : kinds \in SeqsUpTo(UtxoKinds, MaxUtxos)}
    /\ spec = BasicTxSpec(<<>>)
    /\ ret = NoRet
    /\ inflight = NoConstructions

\* construction p is given its fundable spec
Begin(p) ==
    /\ inflight[p].pc = "idle"
    /\ \E t \in SharedTargetKinds :
          inflight' = [inflight EXCEPT ![p] =
                          [pc |-> "fundable",
                           tx_spec |-> SimpleOperationalTxSpec("bitcoin", <<t>>)]]
    /\ UNCHANGED <<utxos, spec, ret>>

\* construction p selects the coins that cover its targets and the fee
Select(p) ==
    /\ inflight[p].pc = "fundable"
    /\ LET tx_spec == inflight[p].tx_spec
           ttotal == SumTargets(get_targets(tx_spec))
           fee == get_required_fee(500)
           sel == select_coins(tx_spec, 0, ttotal + fee)
       IN  inflight' = [inflight EXCEPT ![p] =
                           [pc |-> IF sel.ok THEN "selected" ELSE "failed",
                            tx_spec |-> tx_spec, sel |-> sel]]
    /\ UNCHANGED <<utxos, spec, ret>>

\* the caller drops construction p
Abandon(p) ==
    /\ inflight[p].pc \in {"selected", "failed"}
    /\ inflight' = [inflight EXCEPT ![p] = Idle]
    /\ UNCHANGED <<utxos, spec, ret>>

NextShared == \E p \in Constructions : Begin(p) \/ Select(p) \/ Abandon(p)

SpecShared == InitShared /\ [][NextShared]_vars

----------------------------------------------------------------------------
(* Vocabulary of the properties *)

\* ret holds the outcome of transform(spec, kind)
Transformed(kind) == ret.op = "transform" /\ ret.kind = kind
Selected == ret.op = "select_coins"

StateOf(s) ==
    CASE s.cls = "BasicTxSpec" -> "Intent"
      [] s.cls = "SimpleOperationalTxSpec" -> "Fundable"
      [] s.cls = "ComposedTxSpec" -> "Composed"
      [] s.cls = "SignedTxSpec" -> "Signed"
      [] OTHER -> "unrecognized"

StateOfKind(kind) ==
    CASE kind = "basic" -> "Intent"
      [] kind = "operational" -> "Fundable"
      [] kind = "composed" -> "Composed"
      [] kind = "signed" -> "Signed"
      [] OTHER -> "no state"

Rank(state) ==
    CASE state = "Intent" -> 1
      [] state = "Fundable" -> 2
      [] state = "Composed" -> 3
      [] state = "Signed" -> 4
      [] OTHER -> 0

InPipeline(s) == Rank(StateOf(s)) > 0

\* a non-empty intent whose targets all pay the native currency
NativeIntent(s) ==
    /\ s.cls = "BasicTxSpec"
    /\ s.targets # <<>>
    /\ \A i \in 1..Len(s.targets) : s.targets[i][2] = "bitcoin"

\* every target names an amount that is valid for a transfer
PositiveAmounts(s) == \A i \in 1..Len(s.targets) : s.targets[i][3] > 0

\* a fundable spec whose targets all carry color id 0
NativeFundable(s) ==
    /\ s.cls = "SimpleOperationalTxSpec"
    /\ s.targets # <<>>
    /\ \A i \in 1..Len(s.targets) : s.targets[i][2] = 0

Candidates(color_id) == SelectSeq(utxos, LAMBDA u : u.color_id = color_id)
PrefixSum(s, k) == SumValues(SubSeq(s, 1, k))
\* the lengths of the prefixes of s that cover V
Covering(s, V) == {k \in 1..Len(s) : PrefixSum(s, k) >= V}
\* what the first covering prefix of the native candidates holds, 0 if none covers V
FirstCover(V) ==
    LET ks == Covering(Candidates(0), V)
    IN  IF ks = {} THEN 0 ELSE CHOOSE k \in ks : \A j \in ks : k <= j
Needed(s) == SumTargets(s.targets) + get_required_fee(500)
SelectedSum(s) == PrefixSum(Candidates(0), FirstCover(Needed(s)))

OutputsOfTargets(s) ==
    [i \in 1..Len(s.targets) |-> [value |-> s.targets[i][3], target_addr |-> s.targets[i][1]]]

RECURSIVE SumInputs(_)
SumInputs(txins) == IF txins = <<>> THEN 0 ELSE txins[1].utxo.value + SumInputs(Tail(txins))

Invoked(fn) == \E i \in 1..Len(ret.out.calls) : ret.out.calls[i].fn = fn

----------------------------------------------------------------------------
(* Properties *)

\* C1: transform(intent, 'composed') of a non-empty native intent either
\* fails with InsufficientFunds or UnsupportedSpec, or returns a Composed
\* spec with sum(inputs) = sum(outputs) + fee.
C1_ComposedBalancedOrFails ==
    (Transformed("composed") /\ NativeIntent(spec) /\ PositiveAmounts(spec)) =>
        \/ ~ret.out.ok /\ ret.out.err \in {InsufficientFunds, UnsupportedSpec}
        \/ /\ ret.out.ok
           /\ ret.out.val.cls = "ComposedTxSpec"
           /\ SumInputs(ret.out.val.txins)
                = SumValues(ret.out.val.txouts) + get_required_fee(500)

\* C2 as stated: select(color, V) with V > 0 returns a total >= V that is
\* the sum of the returned inputs, and fails, with InsufficientFunds,
\* exactly when the candidates of that color sum to less than V.
C2_SelectFailsExactlyWhenShort ==
    (Selected /\ ret.value > 0) =>
        LET available == SumValues(Candidates(ret.color_id))
        IN  /\ ret.out.ok =>
                 /\ ret.out.val[2] >= ret.value
                 /\ ret.out.val[2] = SumValues(ret.out.val[1])
            /\ ret.out.ok <=> available >= ret.value
            /\ ~ret.out.ok => ret.out.err = InsufficientFunds

\* C2 amended: the above holds for a color id that is 0 or belongs to the
\* asset of the spec; for any other color id the selection fails with
\* 'wrong color id requested' and the coins are not queried.
C2_SelectFailsExactlyWhenShortOfOwnColor ==
    (Selected /\ ret.value > 0) =>
        LET available == SumValues(Candidates(ret.color_id))
        IN  IF ret.color_id = 0 \/ ret.color_id \in get_color_set(spec.asset)
            THEN /\ ret.out.ok =>
                      /\ ret.out.val[2] >= ret.value
                      /\ ret.out.val[2] = SumValues(ret.out.val[1])
                 /\ ret.out.ok <=> available >= ret.value
                 /\ ~ret.out.ok => ret.out.err = InsufficientFunds
            ELSE /\ ~ret.out.ok
                 /\ ret.out.err = WrongColorIdRequested
                 /\ ~Invoked("make_coin_query")

\* a selection of two coins of the asset's own color has succeeded
C2_Witness ==
    /\ Selected /\ ret.value > 0
    /\ ret.color_id = 0
    /\ ret.out.ok
    /\ Len(ret.out.val[1]) = 2

\* C3: transform(spec, kind) with kind the spec's own state returns the
\* identical spec and invokes no collaborator, also for an empty or
\* multi-asset intent.
C3_OwnStateIsIdentity ==
    (ret.op = "transform" /\ InPipeline(spec) /\ StateOfKind(ret.kind) = StateOf(spec)) =>
        /\ ret.out.ok
        /\ ret.out.val = spec
        /\ ret.out.calls = <<>>

\* a multi-asset intent was transformed to 'basic'
C3_Witness ==
    /\ Transformed("basic")
    /\ spec.cls = "BasicTxSpec"
    /\ Len(spec.targets) >= 2
    /\ spec.targets[1][2] # spec.targets[2][2]
    /\ ret.out.ok

\* C4: when the selected sum exceeds total + fee, the Composed spec holds
\* one output per target, in target order, followed by exactly one change
\* output of selected_sum - total - fee to the change address of color 0.
C4_ChangeOutputAppended ==
    (Transformed("composed") /\ NativeFundable(spec) /\ PositiveAmounts(spec)
        /\ FirstCover(Needed(spec)) > 0 /\ SelectedSum(spec) > Needed(spec)) =>
        /\ ret.out.ok
        /\ ret.out.val.cls = "ComposedTxSpec"
        /\ ret.out.val.txouts =
              Append(OutputsOfTargets(spec),
                     [value |-> SelectedSum(spec) - Needed(spec), target_addr |-> "change0"])

\* C5: when selected_sum = total + fee exactly, the outputs of the Composed
\* spec are exactly one per target, in target order; no change output is
\* appended and no change address is derived.
C5_NoChangeWhenExact ==
    (Transformed("composed") /\ NativeFundable(spec)
        /\ FirstCover(Needed(spec)) > 0 /\ SelectedSum(spec) = Needed(spec)) =>
        /\ ret.out.ok
        /\ ret.out.val.cls = "ComposedTxSpec"
        /\ ret.out.val.txouts = OutputsOfTargets(spec)
        /\ Len(ret.out.val.txins) = FirstCover(Needed(spec))
        /\ ~Invoked("get_change_address")

\* two targets were funded exactly, by one coin or more
C5_Witness ==
    /\ Transformed("composed") /\ NativeFundable(spec)
    /\ Len(spec.targets) = 2
    /\ spec.targets[1] # spec.targets[2]
    /\ PositiveAmounts(spec)
    /\ FirstCover(Needed(spec)) > 0 /\ SelectedSum(spec) = Needed(spec)
    /\ ret.out.ok

\* C6 as stated: transform never returns a spec of an earlier state; every
\* request for an earlier state, every request for a kind that is no state,
\* and every request on a Signed spec fails with UnsupportedSpec.
C6_NoBackTransition ==
    (ret.op = "transform" /\ InPipeline(spec)) =>
        /\ ret.out.ok => Rank(StateOf(ret.out.val)) >= Rank(StateOf(spec))
        /\ (\/ Rank(StateOfKind(ret.kind)) < Rank(StateOf(spec))
            \/ ret.kind \notin SpecKinds
            \/ StateOf(spec) = "Signed")
              => /\ ~ret.out.ok
                 /\ ret.out.err = UnsupportedSpec
                 /\ ret.out.val = None

\* C6 amended: as above, but on a Signed spec it is every request for a
\* kind other than 'signed' that fails with UnsupportedSpec.
C6_NoBackTransitionButIdentity ==
    (ret.op = "transform" /\ InPipeline(spec)) =>
        /\ ret.out.ok => Rank(StateOf(ret.out.val)) >= Rank(StateOf(spec))
        /\ (\/ Rank(StateOfKind(ret.kind)) < Rank(StateOf(spec))
            \/ ret.kind \notin SpecKinds
            \/ StateOf(spec) = "Signed" /\ ret.kind # "signed")
              => /\ ~ret.out.ok
                 /\ ret.out.err = UnsupportedSpec
                 /\ ret.out.val = None

\* a Composed spec was asked back into the Fundable state
C6_Witness ==
    /\ Transformed("operational")
    /\ spec.cls = "ComposedTxSpec"
    /\ ~ret.out.ok

\* C8: a Composed spec with at least one input, every key resolvable, is
\* transformed to a Signed spec that holds that composed spec and the bytes
\* built from all inputs and all outputs in order, one key per input.
C8_SignsWhenKeysResolve ==
    (Transformed("signed") /\ spec.cls = "ComposedTxSpec"
        /\ Len(spec.txins) >= 1
        /\ \A i \in 1..Len(spec.txins) : spec.txins[i].utxo.privkey) =>
        /\ ret.out.ok
        /\ ret.out.val.cls = "SignedTxSpec"
        /\ ret.out.val.composed_tx_spec = spec
        /\ ret.out.val.tx_data[2] = Len(spec.txins)
        /\ ret.out.val.tx_data[3 + 2 * Len(spec.txins)] = Len(spec.txouts)

\* C9: when the key of any one input cannot be resolved, signing fails
\* with KeyResolutionError and returns no Signed spec and no bytes.
C9_SigningAllOrNothing ==
    (Transformed("signed") /\ spec.cls = "ComposedTxSpec"
        /\ \E i \in 1..Len(spec.txins) : ~spec.txins[i].utxo.privkey) =>
        /\ ~ret.out.ok
        /\ ret.out.err = KeyResolutionError
        /\ ret.out.val = None

\* C10: select(color, V) with V = 0 or V < 0 fails with InvalidSelection
\* and returns no selection, whatever the candidates.
C10_NonPositiveTargetRejected ==
    (Selected /\ ret.value <= 0) =>
        /\ ~ret.out.ok
        /\ ret.out.err = InvalidSelection
\* the kinds that name a state after Intent
LaterKinds == {"operational", "composed", "signed"}

\* an intent in which two targets name different assets
MultiAssetIntent(s) ==
    /\ s.cls = "BasicTxSpec"
    /\ \E i, j \in 1..Len(s.targets) : s.targets[i][2] # s.targets[j][2]

\* C11: a multi-asset intent cannot leave the Intent state: transform to
\* operational, composed or signed fails with UnsupportedSpec, and neither
\* make_fundable, the fee estimator, the coin selector nor the signer is
\* invoked.
C11_MultiAssetIntentRejected ==
    (ret.op = "transform" /\ ret.kind \in LaterKinds /\ MultiAssetIntent(spec)) =>
        /\ ~ret.out.ok
        /\ ret.out.err = UnsupportedSpec
        /\ ret.out.val = None
        /\ ~Invoked("make_operational_tx_spec")
        /\ ~Invoked("get_required_fee")
        /\ ~Invoked("select_coins")
        /\ ~Invoked("make_coin_query")
        /\ ~Invoked("SignedTxSpec")

\* an intent paying bitcoin and gold was asked to be signed
C11_Witness ==
    /\ Transformed("signed")
    /\ MultiAssetIntent(spec)
    /\ ~ret.out.ok
\* the place of each collaborator in a construction
StageOf(fn) ==
    CASE fn = "is_monoasset" -> 1
      [] fn = "make_operational_tx_spec" -> 2
      [] fn = "is_monocolor" -> 3
      [] fn = "get_required_fee" -> 4
      [] fn = "select_coins" -> 5
      [] fn = "make_coin_query" -> 6
      [] fn = "get_change_address" -> 7
      [] fn = "compose_tx_spec" -> 7
      [] fn = "ComposedTxSpec" -> 8
      [] fn = "SignedTxSpec" -> 9
      [] OTHER -> 10

\* the calls were made stage after stage, none of them twice; only the keys
\* of the inputs, one per input, are resolved by as many calls
InStageOrder(calls) ==
    \A i \in 1..Len(calls) - 1 :
        \/ StageOf(calls[i].fn) < StageOf(calls[i + 1].fn)
        \/ calls[i].fn = "privkey" /\ calls[i + 1].fn = "privkey"

LastCall(calls) == IF calls = <<>> THEN "" ELSE calls[Len(calls)].fn

\* the collaborators in which a failure can arise; "" stands for the
\* transformer itself, before it called anything
RaisedIn(err) ==
    CASE err = EmptySpec -> {"is_monoasset"}
      [] err = UnsupportedSpec -> {"", "is_monoasset", "is_monocolor"}
      [] err = UnrecognizedSpec -> {""}
      [] err \in {InsufficientFunds, InvalidSelection} -> {"make_coin_query"}
      [] err = WrongColorIdRequested -> {"select_coins"}
      [] err = KernelError -> {"compose_tx_spec"}
      [] err = NameError -> {"make_coin_query", "SignedTxSpec"}
      [] err = KeyResolutionError -> {"privkey"}
      [] OTHER -> {}

\* C12: a failure in any stage of a transform call aborts the call: no spec
\* is returned, nothing is invoked after the collaborator that failed, and
\* no collaborator was invoked twice.
C12_FailureAborts ==
    (ret.op = "transform" /\ ~ret.out.ok) =>
        /\ ret.out.val = None
        /\ InStageOrder(ret.out.calls)
        /\ LastCall(ret.out.calls) \in RaisedIn(ret.out.err)

\* the coins of a native intent fell short on the way to 'signed'
C12_Witness ==
    /\ Transformed("signed")
    /\ NativeIntent(spec)
    /\ ~ret.out.ok
    /\ ret.out.err = InsufficientFunds
    /\ Len(ret.out.calls) >= 5
\* an intent or a fundable spec one of whose targets names the amount 0
HasZeroAmount(s) ==
    /\ s.cls \in {"BasicTxSpec", "SimpleOperationalTxSpec"}
    /\ \E i \in 1..Len(s.targets) : s.targets[i][3] = 0

\* C13: a spec holding a target of amount 0 is never turned into a Composed
\* spec: transform to 'composed' fails.
C13_ZeroAmountNeverComposed ==
    (Transformed("composed") /\ HasZeroAmount(spec)) => ~ret.out.ok

\* C14: a successful select(color, V) returns the shortest prefix of the
\* candidates of that color whose sum is >= V: the selection is not empty,
\* it is a prefix of the candidates, and each of its proper prefixes, the
\* empty one included, sums to less than V.
C14_ShortestCoveringPrefix ==
    (Selected /\ ret.out.ok) =>
        LET selection == ret.out.val[1]
            candidates == Candidates(ret.color_id)
        IN  /\ selection # <<>>
            /\ Len(selection) <= Len(candidates)
            /\ selection = SubSeq(candidates, 1, Len(selection))
            /\ \A k \in 0..Len(selection) - 1 : PrefixSum(selection, k) < ret.value

\* C14 for the targets the selector is meant to accept
C14_ShortestCoveringPrefixOfPositive ==
    (Selected /\ ret.out.ok /\ ret.value > 0) => C14_ShortestCoveringPrefix
\* the steps of a native construction, as the call log names them
NativeSteps ==
    <<"make_operational_tx_spec", "get_required_fee", "select_coins",
      "ComposedTxSpec", "SignedTxSpec">>

StepsTaken(calls) ==
    SelectSeq(calls, LAMBDA c : \E i \in 1..Len(NativeSteps) : NativeSteps[i] = c.fn)

\* C15: a transform(intent, 'signed') of a native intent that gets as far
\* as the signer, and so every successful one, has taken the steps
\* make_fundable, fee estimate, coin selection, construction of the Composed
\* spec, signer, in this order and each once; the selector was asked for
\* color 0 and for the sum of the amounts plus the estimated fee; the signer
\* is never invoked before a Composed spec has been constructed.
C15_NativeStageOrder ==
    (Transformed("signed") /\ NativeIntent(spec)) =>
        LET calls == ret.out.calls
            steps == StepsTaken(calls)
        IN  /\ (ret.out.ok \/ Invoked("SignedTxSpec")) =>
                  /\ [i \in 1..Len(steps) |-> steps[i].fn] = NativeSteps
                  /\ steps[3].args = <<0, SumTargets(spec.targets) + get_required_fee(500)>>
            /\ \A i \in 1..Len(calls) :
                  calls[i].fn = "SignedTxSpec" =>
                      \E j \in 1..(i - 1) : calls[j].fn = "ComposedTxSpec"
            /\ \A i \in 1..Len(steps) : steps[i].fn = NativeSteps[i]

\* a native intent of valid amounts was composed and handed to the signer
C15_Witness ==
    /\ Transformed("signed")
    /\ NativeIntent(spec)
    /\ PositiveAmounts(spec)
    /\ Len(spec.targets) = 2
    /\ Invoked("SignedTxSpec")
\* a fundable spec whose targets all carry one color id that is not 0
NonNativeFundable(s) ==
    /\ s.cls = "SimpleOperationalTxSpec"
    /\ s.targets # <<>>
    /\ s.targets[1][2] # 0
    /\ \A i \in 1..Len(s.targets) : s.targets[i][2] = s.targets[1][2]

\* the Composed specs the color kernel may return for the fundable spec s
KernelPlans(s) ==
    LET coins == Candidates(s.targets[1][2])
    IN  {[cls |-> "ComposedTxSpec", txins |-> txins, txouts |-> OutputsOfTargets(s)] :
            txins \in {<<>>, [i \in 1..Len(coins) |-> [utxo |-> coins[i]]]}}

\* C16: composing a mono-color fundable spec of a non-native color invokes
\* the compose capability of that color and nothing else: no fee estimate,
\* no coin selection, no change address; the Composed spec returned is the
\* one the capability returned, unchanged and whatever its balance.
C16_NonNativeDelegated ==
    (Transformed("composed") /\ NonNativeFundable(spec)) =>
        /\ [i \in 1..Len(ret.out.calls) |-> ret.out.calls[i].fn]
              = <<"is_monocolor", "compose_tx_spec">>
        /\ ret.out.calls[2].args = <<spec.targets[1][2]>>
        /\ ret.out.ok => ret.out.val \in KernelPlans(spec)
        /\ ~ret.out.ok => ret.out.err = KernelError

\* the kernel's plan came back with inputs worth more than its outputs
C16_Witness ==
    /\ Transformed("composed") /\ NonNativeFundable(spec)
    /\ ret.out.ok
    /\ SumInputs(ret.out.val.txins) > SumValues(ret.out.val.txouts)
\* C17: classification is total and single-valued: every spec value is
\* classified as one of the four states or as unrecognized; transform on an
\* unrecognized value fails for every kind with the 'unrecognized spec'
\* error, which is not UnsupportedSpec, and invokes no collaborator.
C17_UnrecognizedRejected ==
    /\ classify_tx_spec(spec) \in SpecKinds \cup {NoneKind}
    /\ classify_tx_spec(spec) = NoneKind <=> StateOf(spec) = "unrecognized"
    /\ InPipeline(spec) => StateOfKind(classify_tx_spec(spec)) = StateOf(spec)
    /\ (ret.op = "transform" /\ ~InPipeline(spec)) =>
          /\ ~ret.out.ok
          /\ ret.out.err = UnrecognizedSpec
          /\ ret.out.err # UnsupportedSpec
          /\ ret.out.val = None
          /\ ret.out.calls = <<>>

\* a value of none of the four classes was asked to be signed
C17_Witness ==
    /\ Transformed("signed")
    /\ spec = Unrecognized
    /\ ~ret.out.ok

\* the collaborators of the stages that follow the state a kind names
AfterKind(kind) ==
    CASE kind = "basic" ->
            {"is_monoasset", "make_operational_tx_spec", "is_monocolor", "get_required_fee",
             "select_coins", "make_coin_query", "get_change_address", "compose_tx_spec",
             "ComposedTxSpec", "SignedTxSpec", "privkey"}
      [] kind = "operational" ->
            {"is_monocolor", "get_required_fee", "select_coins", "make_coin_query",
             "get_change_address", "compose_tx_spec", "ComposedTxSpec", "SignedTxSpec", "privkey"}
      [] kind = "composed" -> {"SignedTxSpec", "privkey"}
      [] OTHER -> {}

\* C19: transform stops at the requested state: the spec it returns is of
\* exactly the requested kind, and no collaborator of a later stage has been
\* invoked, whether the call returns or raises.
C19_StopsAtRequestedState ==
    (ret.op = "transform" /\ InPipeline(spec)) =>
        /\ ret.out.ok => StateOf(ret.out.val) = StateOfKind(ret.kind)
        /\ \A i \in 1..Len(ret.out.calls) : ret.out.calls[i].fn \notin AfterKind(ret.kind)

\* an intent was made fundable, and no further
C19_Witness ==
    /\ Transformed("operational")
    /\ NativeIntent(spec)
    /\ ret.out.ok
    /\ ret.out.val.cls = "SimpleOperationalTxSpec"
    /\ Len(ret.out.calls) = 2

\* C20: transforming an intent without targets to operational, composed or
\* signed fails with the 'empty spec' error of the mono-asset check, returns
\* no spec, and invokes neither make_fundable, the fee estimator, the coin
\* query nor the signer.
C20_EmptyIntentRejected ==
    (ret.op = "transform" /\ ret.kind \in LaterKinds
        /\ spec.cls = "BasicTxSpec" /\ spec.targets = <<>>) =>
        /\ ~ret.out.ok
        /\ ret.out.err = EmptySpec
        /\ ret.out.val = None
        /\ [i \in 1..Len(ret.out.calls) |-> ret.out.calls[i].fn] = <<"is_monoasset">>

\* an intent without targets was asked to be composed
C20_Witness ==
    /\ Transformed("composed")
    /\ spec = BasicTxSpec(<<>>)
    /\ ~ret.out.ok
\* the outpoints among the coins construction p selected
OutpointsOf(p) ==
    {inflight[p].sel.val[1][i].outpoint : i \in 1..Len(inflight[p].sel.val[1])}

\* C18: a selection is made from one snapshot of the candidates, taken by a
\* single query, and takes the coins from the head of the whole pool
\* whatever other constructions hold: nothing is reserved, so two
\* constructions under way on the same pool that have both selected their
\* coins hold an output in common.
C18_SelectionsShareOutputs ==
    /\ \A p \in Constructions :
          inflight[p].pc = "selected" =>
              /\ [i \in 1..Len(inflight[p].sel.calls) |-> inflight[p].sel.calls[i].fn]
                    = <<"make_coin_query">>
              /\ inflight[p].sel.val[1]
                    = SubSeq(Candidates(0), 1, Len(inflight[p].sel.val[1]))
    /\ \A p, q \in Constructions :
          (p # q /\ inflight[p].pc = "selected" /\ inflight[q].pc = "selected") =>
              OutpointsOf(p) \cap OutpointsOf(q) # {}

\* two constructions of different targets both hold output 1, while the
\* pool has another coin that would have covered either of them
C18_Witness ==
    /\ inflight[1].pc = "selected" /\ inflight[2].pc = "selected"
    /\ inflight[1].tx_spec # inflight[2].tx_spec
    /\ OutpointsOf(1) = {1} /\ OutpointsOf(2) = {1}
    /\ Len(utxos) >= 2 /\ utxos[2].color_id = 0 /\ utxos[2].value = 60000
====
